---------------------------- MODULE Spec2Model ----------------------------
(***************************************************************************)
(* Model of the k8s diagnostics agent (src/k8s_diagnostics_agent/app.py):  *)
(* the /diagnose pipeline (_run_pipeline), the output text extractor, the  *)
(* markdown renderer, the structured-result extractor and the report       *)
(* assembler.                                                              *)
(*                                                                         *)
(* Python values are records tagged by "t".  A Python str is a sequence of *)
(* atoms; an atom is one character or one literal the code searches for:   *)
(*   "F"  three backticks   "bt" one backtick      "j"  the word json     *)
(*   "w"  a word (\w+)   " "  blank    "\n" newline                        *)
(*   "S"  ### JSON_START "E"  ### JSON_END                                 *)
(*   "K"  "proposed_remediation_via_aap":   (the quoted key and colon)     *)
(*   "a" "b"  a complete JSON member with a scalar value                   *)
(*   "{" "}" "<" "*" "-"  the characters themselves                        *)
(***************************************************************************)
EXTENDS Integers, Sequences, FiniteSets, TLC

VARIABLES env, rag_agent_cache, req, calls, sessions, turns, rd

vars == <<env, rag_agent_cache, req, calls, sessions, turns, rd>>

\* Number of /diagnose invocations in flight.
NumInv == 2

Inv == 1..NumInv

----------------------------------------------------------------------------
(* Python values *)

None == [t |-> "none"]

Str(s) == [t |-> "str", s |-> s]

Num(n) == [t |-> "num", n |-> n]

List(items) == [t |-> "list", items |-> items]

Dict(d) == [t |-> "dict", d |-> d]

Obj(attrs) == [t |-> "obj", attrs |-> attrs]

\* The empty mapping (a function with empty domain).
EmptyMap == [k \in {} |-> None]

\* bool(v)
Truthy(v) ==
    CASE v.t = "none" -> FALSE
      [] v.t = "str"  -> v.s # <<>>
      [] v.t = "num"  -> v.n # 0
      [] v.t = "list" -> v.items # <<>>
      [] v.t = "dict" -> DOMAIN v.d # {}
      [] OTHER        -> TRUE

\* getattr(v, name, None): only attribute objects carry the probed names.
GetAttr(v, name) ==
    IF v.t = "obj" /\ name \in DOMAIN v.attrs THEN v.attrs[name] ELSE None

\* hasattr(v, name)
HasAttr(v, name) == v.t = "obj" /\ name \in DOMAIN v.attrs

\* d.get(key) on a dict value.
DictGet(v, key) == IF key \in DOMAIN v.d THEN v.d[key] ELSE None

\* x or y
Or(x, y) == IF Truthy(x) THEN x ELSE y

IsSpace(c) == c \in {" ", "\n"}

RECURSIVE LStrip(_)
LStrip(s) == IF s # <<>> /\ IsSpace(Head(s)) THEN LStrip(Tail(s)) ELSE s

RECURSIVE RStrip(_)
RStrip(s) ==
    IF s # <<>> /\ IsSpace(s[Len(s)]) THEN RStrip(SubSeq(s, 1, Len(s) - 1)) ELSE s

\* str.strip()
Strip(s) == RStrip(LStrip(s))

\* reversed(seq)
Reversed(s) == [i \in 1..Len(s) |-> s[Len(s) + 1 - i]]

\* Iterating a value: lists yield their items, a str its characters, a dict
\* its keys (strings); anything else raises TypeError.
Iterable(v) == v.t \in {"list", "str", "dict"}

RECURSIVE KeySeq(_)
KeySeq(ks) ==
    IF ks = {} THEN <<>>
    ELSE LET k == CHOOSE x \in ks : TRUE IN <<Str(<<k>>)>> \o KeySeq(ks \ {k})

ItemsOf(v) ==
    CASE v.t = "list" -> v.items
      [] v.t = "str"  -> [i \in 1..Len(v.s) |-> Str(<<v.s[i]>>)]
      [] v.t = "dict" -> KeySeq(DOMAIN v.d)
      [] OTHER        -> <<>>

----------------------------------------------------------------------------
(* extract_output_text *)

\* Outcome of a scan: a returned value, nothing found, or an exception.
Ret(v) == [k |-> "ret", v |-> v]

Nothing == [k |-> "nothing", v |-> None]

Raise == [k |-> "raise", v |-> None]

\* str(v): the text itself, else the repr of the value (the atom "R", which
\* carries quotes).
StrOf(result) == IF result.t = "str" THEN result ELSE Str(<<"R">>)

\* for c in content_list: text = getattr(c, "text", None); if text: return text
RECURSIVE AttrContentScan(_, _)
AttrContentScan(cl, i) ==
    IF i > Len(cl) THEN Nothing
    ELSE LET text == GetAttr(cl[i], "text")
         IN  IF Truthy(text) THEN Ret(text) ELSE AttrContentScan(cl, i + 1)

\* for item in reversed(result.output): ...   (items given already reversed)
RECURSIVE AttrOutputScan(_, _)
AttrOutputScan(items, i) ==
    IF i > Len(items) THEN Nothing
    ELSE LET item_type == GetAttr(items[i], "type")
             content_list == GetAttr(items[i], "content")
         IN  IF item_type = Str(<<"message">>) /\ Truthy(content_list)
             THEN IF ~Iterable(content_list) THEN Raise
                  ELSE LET r == AttrContentScan(ItemsOf(content_list), 1)
                       IN  IF r.k = "nothing" THEN AttrOutputScan(items, i + 1) ELSE r
             ELSE AttrOutputScan(items, i + 1)

\* The try block: the attribute probe of output, then of output_text.  An
\* exception anywhere in it ends the whole block.
AttrBranch(result) ==
    LET scan == IF HasAttr(result, "output") /\ Truthy(result.attrs["output"])
                THEN IF ~Iterable(result.attrs["output"]) THEN Raise
                     ELSE AttrOutputScan(Reversed(ItemsOf(result.attrs["output"])), 1)
                ELSE Nothing
    IN  IF scan.k # "nothing" THEN scan
        ELSE IF HasAttr(result, "output_text")
                  /\ result.attrs["output_text"].t = "str"
                  /\ Truthy(result.attrs["output_text"])
             THEN Ret(result.attrs["output_text"])
             ELSE Nothing

\* for c in item.get("content", []): text = c.get("text"); if text: return text
RECURSIVE DictContentScan(_, _)
DictContentScan(cl, i) ==
    IF i > Len(cl) THEN Nothing
    ELSE IF cl[i].t # "dict" THEN Raise
    ELSE LET text == DictGet(cl[i], "text")
         IN  IF Truthy(text) THEN Ret(text) ELSE DictContentScan(cl, i + 1)

\* for item in reversed(output): if item.get("type") == "message": ...
RECURSIVE DictOutputScan(_, _)
DictOutputScan(items, i) ==
    IF i > Len(items) THEN Nothing
    ELSE IF items[i].t # "dict" THEN Raise
    ELSE IF DictGet(items[i], "type") = Str(<<"message">>)
         THEN LET content == IF "content" \in DOMAIN items[i].d
                             THEN items[i].d["content"] ELSE List(<<>>)
              IN  IF ~Iterable(content) THEN Raise
                  ELSE LET r == DictContentScan(ItemsOf(content), 1)
                       IN  IF r.k = "nothing" THEN DictOutputScan(items, i + 1) ELSE r
         ELSE DictOutputScan(items, i + 1)

\* The isinstance(result, dict) branch, outside the try block.
DictBranch(result) ==
    IF result.t = "dict" /\ DictGet(result, "output").t = "list"
    THEN DictOutputScan(Reversed(DictGet(result, "output").items), 1)
    ELSE Nothing

extract_output_text(result) ==
    LET a == AttrBranch(result)
    IN  IF a.k = "ret" THEN a
        ELSE LET d == DictBranch(result)
             IN  IF d.k = "nothing" THEN Ret(StrOf(result)) ELSE d

----------------------------------------------------------------------------
(* Text helpers *)

\* str.splitlines(): a trailing newline opens no further line.
RECURSIVE SplitLinesFrom(_, _)
SplitLinesFrom(s, cur) ==
    IF s = <<>> THEN (IF cur = <<>> THEN <<>> ELSE <<cur>>)
    ELSE IF Head(s) = "\n" THEN <<cur>> \o SplitLinesFrom(Tail(s), <<>>)
    ELSE SplitLinesFrom(Tail(s), Append(cur, Head(s)))

SplitLines(s) == SplitLinesFrom(s, <<>>)

\* "\n".join(parts)
RECURSIVE JoinLines(_)
JoinLines(parts) ==
    IF parts = <<>> THEN <<>>
    ELSE IF Len(parts) = 1 THEN parts[1]
    ELSE parts[1] \o <<"\n">> \o JoinLines(Tail(parts))

\* html.escape of one atom: & < > and the quotes are replaced by entities (the
\* JSON atoms and the dump "D" carry double quotes, "B" is a line-break tag,
\* "<ul>" and "</code></pre>" are tags typed literally in the text).
EscapeAtom(c) ==
    CASE c = "<" -> "&lt;"
      [] c = ">" -> "&gt;"
      [] c = "&" -> "&amp;"
      [] c = "B" -> "&lt;br/&gt;"
      [] c = "<ul>" -> "&lt;ul&gt;"
      [] c = "</code></pre>" -> "&lt;/code&gt;&lt;/pre&gt;"
      [] c = "R" -> "&#x27;R&#x27;"
      [] c \in {"K", "k", "a", "b", "c", "m", "n", "D"} -> "&quot;" \o c \o "&quot;"
      [] OTHER   -> c

\* html.escape(s)
HtmlEscape(s) == [i \in 1..Len(s) |-> EscapeAtom(s[i])]

\* The characters of a text: "F" is three backticks.
RECURSIVE Chars(_)
Chars(s) ==
    IF s = <<>> THEN <<>>
    ELSE IF Head(s) = "F" THEN <<"bt", "bt", "bt">> \o Chars(Tail(s))
    ELSE <<Head(s)>> \o Chars(Tail(s))

\* Index of the first backtick of s at or after i, 0 when there is none.
RECURSIVE NextTick(_, _)
NextTick(s, i) ==
    IF i > Len(s) THEN 0 ELSE IF s[i] = "bt" THEN i ELSE NextTick(s, i + 1)

\* Mutant: the text of a code span is emitted as it is.
RECURSIVE InlineScan_RawSpan(_, _, _)
InlineScan_RawSpan(s, i, last) ==
    IF i > Len(s) THEN HtmlEscape(SubSeq(s, last, Len(s)))
    ELSE IF s[i] = "bt" /\ i + 1 <= Len(s) /\ s[i + 1] # "bt" /\ NextTick(s, i + 1) # 0
    THEN LET e == NextTick(s, i + 1)
         IN  HtmlEscape(SubSeq(s, last, i - 1)) \o <<"<code>">>
                 \o SubSeq(s, i + 1, e - 1) \o <<"</code>">>
                 \o InlineScan_RawSpan(s, e + 1, e + 1)
    ELSE InlineScan_RawSpan(s, i + 1, last)

render_inline_code_RawSpan(text) == InlineScan_RawSpan(Chars(text), 1, 1)

\* re.finditer (a backtick, one or more non-backticks, a backtick) over the
\* characters s, scanning from i, the unemitted normal text starting at last.
RECURSIVE InlineScan(_, _, _)
InlineScan(s, i, last) ==
    IF i > Len(s) THEN HtmlEscape(SubSeq(s, last, Len(s)))
    ELSE IF s[i] = "bt" /\ i + 1 <= Len(s) /\ s[i + 1] # "bt" /\ NextTick(s, i + 1) # 0
    THEN LET e == NextTick(s, i + 1)
         IN  HtmlEscape(SubSeq(s, last, i - 1)) \o <<"<code>">>
                 \o HtmlEscape(SubSeq(s, i + 1, e - 1)) \o <<"</code>">>
                 \o InlineScan(s, e + 1, e + 1)
    ELSE InlineScan(s, i + 1, last)

render_inline_code_escaped(text) == InlineScan(Chars(text), 1, 1)

----------------------------------------------------------------------------
(* render_simple_markdown_to_html *)

\* line.strip().startswith(three backticks)
IsFence(line) == Strip(line) # <<>> /\ Head(Strip(line)) = "F"

\* stripped.startswith("* ") or stripped.startswith("- ")
IsBullet(stripped) ==
    Len(stripped) >= 2 /\ stripped[1] \in {"*", "-"} /\ stripped[2] = " "

\* Mutant: a fence that opens a code block leaves an open list as it is.
RenderLine_ListLeftOpen(st, line) ==
    LET stripped == Strip(line)
        closed == IF st.in_list THEN Append(st.html_parts, <<"</ul>">>)
                  ELSE st.html_parts
    IN  IF IsFence(line)
        THEN IF st.in_code
             THEN [st EXCEPT !.html_parts = Append(@, <<"</code></pre>">>),
                             !.in_code = FALSE]
             ELSE [st EXCEPT !.html_parts = Append(@, <<"<pre><code>">>),
                             !.in_code = TRUE]
        ELSE IF st.in_code
        THEN [st EXCEPT !.html_parts = Append(@, HtmlEscape(line))]
        ELSE IF IsBullet(stripped)
        THEN [st EXCEPT
                 !.html_parts =
                     Append(IF st.in_list THEN @ ELSE Append(@, <<"<ul>">>),
                            <<"<li>">>
                              \o render_inline_code_escaped(
                                     SubSeq(stripped, 3, Len(stripped)))
                              \o <<"</li>">>),
                 !.in_list = TRUE]
        ELSE [st EXCEPT
                 !.html_parts =
                     Append(closed,
                            IF stripped = <<>> THEN <<"<br/>">>
                            ELSE <<"<p>">> \o render_inline_code_escaped(line)
                                   \o <<"</p>">>),
                 !.in_list = FALSE]

\* One iteration of the loop over lines: st holds in_list, in_code, html_parts.
RenderLine(st, line) ==
    LET stripped == Strip(line)
        closed == IF st.in_list THEN Append(st.html_parts, <<"</ul>">>)
                  ELSE st.html_parts
    IN  IF IsFence(line)
        THEN IF st.in_code
             THEN [st EXCEPT !.html_parts = Append(@, <<"</code></pre>">>),
                             !.in_code = FALSE]
             ELSE [st EXCEPT !.html_parts = Append(closed, <<"<pre><code>">>),
                             !.in_list = FALSE, !.in_code = TRUE]
        ELSE IF st.in_code
        THEN [st EXCEPT !.html_parts = Append(@, HtmlEscape(line))]
        ELSE IF IsBullet(stripped)
        THEN [st EXCEPT
                 !.html_parts =
                     Append(IF st.in_list THEN @ ELSE Append(@, <<"<ul>">>),
                            <<"<li>">>
                              \o render_inline_code_escaped(
                                     SubSeq(stripped, 3, Len(stripped)))
                              \o <<"</li>">>),
                 !.in_list = TRUE]
        ELSE [st EXCEPT
                 !.html_parts =
                     Append(closed,
                            IF stripped = <<>> THEN <<"<br/>">>
                            ELSE <<"<p>">> \o render_inline_code_escaped(line)
                                   \o <<"</p>">>),
                 !.in_list = FALSE]

\* Mutant: an open code block is left open at the end of the text.
RenderClose_ListOnly(st) ==
    IF st.in_list THEN Append(st.html_parts, <<"</ul>">>) ELSE st.html_parts

\* After the loop: close what is still open.
RenderClose(st) ==
    LET a == IF st.in_list THEN Append(st.html_parts, <<"</ul>">>) ELSE st.html_parts
    IN  IF st.in_code THEN Append(a, <<"</code></pre>">>) ELSE a

RenderStart == [in_list |-> FALSE, in_code |-> FALSE, html_parts |-> <<>>]

RECURSIVE RenderLoop(_, _, _)
RenderLoop(st, lines, i) ==
    IF i > Len(lines) THEN st ELSE RenderLoop(RenderLine(st, lines[i]), lines, i + 1)

render_simple_markdown_to_html(text) ==
    IF text = <<>> THEN <<>>
    ELSE JoinLines(RenderClose(RenderLoop(RenderStart, SplitLines(text), 1)))

----------------------------------------------------------------------------
(* json.loads, on the atoms of a JSON object *)

\* Members with a scalar or list value, as one atom each:
\*   "a"  "probable_cause": "w"        "b"  "reference_document": "w"
\*   "c"  "probable_cause": 5          "m"  "command": "w"
\*   "n"  "next_steps": ["w"]
\* and keys whose value is the object that follows:
\*   "k"  "next_steps": [ {...} ]      "K"  "proposed_remediation_via_aap": {...}
ScalarMembers == {"a", "b", "c", "m", "n"}

ObjectKeys == {"k", "K"}

MemberKey(c) ==
    CASE c \in {"a", "c"} -> "probable_cause"
      [] c = "b"          -> "reference_document"
      [] c = "m"          -> "command"
      [] c \in {"n", "k"} -> "next_steps"
      [] OTHER            -> "proposed_remediation_via_aap"

ScalarValue(c) ==
    CASE c = "c" -> Num(5)
      [] c = "n" -> List(<<Str(<<"w">>)>>)
      [] OTHER   -> Str(<<"w">>)

\* The value an object takes under a key: next_steps holds a list of objects.
ObjectValue(c, d) == IF c = "k" THEN List(<<Dict(d)>>) ELSE Dict(d)

\* d[key] = v
Put(d, key, v) == [x \in DOMAIN d \cup {key} |-> IF x = key THEN v ELSE d[x]]

RECURSIVE SkipSpace(_, _)
SkipSpace(s, i) == IF i <= Len(s) /\ IsSpace(s[i]) THEN SkipSpace(s, i + 1) ELSE i

ParseFail == [ok |-> FALSE, d |-> EmptyMap, next |-> 0]

\* The members of an object from position i up to its closing brace.
RECURSIVE ParseMembers(_, _, _)
ParseMembers(s, i0, acc) ==
    LET i == SkipSpace(s, i0)
    IN  IF i > Len(s) THEN ParseFail
        ELSE IF s[i] = "}" THEN [ok |-> TRUE, d |-> acc, next |-> i + 1]
        ELSE IF s[i] \in ScalarMembers
        THEN ParseMembers(s, i + 1, Put(acc, MemberKey(s[i]), ScalarValue(s[i])))
        ELSE IF s[i] \in ObjectKeys
        THEN LET j == SkipSpace(s, i + 1)
             IN  IF j <= Len(s) /\ s[j] = "{"
                 THEN LET r == ParseMembers(s, j + 1, EmptyMap)
                      IN  IF r.ok
                          THEN ParseMembers(s, r.next,
                                            Put(acc, MemberKey(s[i]), ObjectValue(s[i], r.d)))
                          ELSE ParseFail
                 ELSE ParseFail
        ELSE ParseFail

\* json.loads(s): the dict, or None when s is not one well-formed object.
JsonLoads(s) ==
    LET i == SkipSpace(s, 1)
    IN  IF i <= Len(s) /\ s[i] = "{"
        THEN LET r == ParseMembers(s, i + 1, EmptyMap)
             IN  IF r.ok /\ SkipSpace(s, r.next) > Len(s) THEN Dict(r.d) ELSE None
        ELSE None

----------------------------------------------------------------------------
(* Structured-result extraction (_run_pipeline, the dual-output block) *)

\* Index of the first c in s at or after i; 0 when there is none.
RECURSIVE IndexFrom(_, _, _)
IndexFrom(s, c, i) ==
    IF i > Len(s) THEN 0 ELSE IF s[i] = c THEN i ELSE IndexFrom(s, c, i + 1)

\* Index of the last c in s at or before i; 0 when there is none.
RECURSIVE LastIndexUpTo(_, _, _)
LastIndexUpTo(s, c, i) ==
    IF i < 1 THEN 0 ELSE IF s[i] = c THEN i ELSE LastIndexUpTo(s, c, i - 1)

WordAtoms == {"j", "w", "-"}

\* re.sub of a run of three or more backticks and the [\w-]* after it.
RECURSIVE SkipWhile(_, _, _)
SkipWhile(s, i, set) ==
    IF i <= Len(s) /\ s[i] \in set THEN SkipWhile(s, i + 1, set) ELSE i

RECURSIVE StripFences(_, _)
StripFences(s, i) ==
    IF i > Len(s) THEN <<>>
    ELSE IF i + 2 <= Len(s) /\ s[i] = "bt" /\ s[i + 1] = "bt" /\ s[i + 2] = "bt"
    THEN StripFences(s, SkipWhile(s, SkipWhile(s, i, {"bt"}), WordAtoms))
    ELSE <<s[i]>> \o StripFences(s, i + 1)

\* .replace of the line-break tags ("B") by newlines.
ReplaceBr(s) == [i \in 1..Len(s) |-> IF s[i] = "B" THEN "\n" ELSE s[i]]

\* raw_for_json
Normalize(raw_text) == ReplaceBr(StripFences(Chars(raw_text), 1))

\* Mutant: the greedy body runs to the last closing brace of the text, whether
\* or not an end marker follows it.
MarkerMatch_NoEndAnchor(t) ==
    LET s0 == IndexFrom(t, "S", 1)
        i  == IF s0 = 0 THEN 0 ELSE IndexFrom(t, "{", s0 + 1)
        j  == LastIndexUpTo(t, "}", Len(t))
    IN  IF s0 # 0 /\ i # 0 /\ j > i /\ IndexFrom(t, "E", s0) # 0
        THEN [found |-> TRUE, group |-> SubSeq(t, i, j)]
        ELSE [found |-> FALSE, group |-> <<>>]

\* re.search of  ### JSON_START [\s\S]*? ( { [\s\S]* } ) [\s\S]*? ### JSON_END :
\* the match starts at the first start marker, the lazy prefix stops at the
\* first opening brace after it, and the greedy body runs to the last closing
\* brace that still has an end marker after it.
MarkerMatch(t) ==
    LET s0 == IndexFrom(t, "S", 1)
        e  == LastIndexUpTo(t, "E", Len(t))
        i  == IF s0 = 0 THEN 0 ELSE IndexFrom(t, "{", s0 + 1)
        j  == IF e = 0 THEN 0 ELSE LastIndexUpTo(t, "}", e - 1)
    IN  IF s0 # 0 /\ i # 0 /\ j > i
        THEN [found |-> TRUE, group |-> SubSeq(t, i, j)]
        ELSE [found |-> FALSE, group |-> <<>>]

\* Position of the first closing brace at or after i that is followed by
\* optional whitespace and three backticks; 0 when there is none.
RECURSIVE FenceClose(_, _)
FenceClose(t, i) ==
    IF i > Len(t) THEN 0
    ELSE IF t[i] = "}"
              /\ LET q == SkipSpace(t, i + 1)
                 IN  q + 2 <= Len(t) /\ t[q] = "bt" /\ t[q + 1] = "bt" /\ t[q + 2] = "bt"
    THEN i
    ELSE FenceClose(t, i + 1)

\* re.search of  three backticks json \s* ( { [\s\S]*? } ) \s* three backticks,
\* trying the start positions from p on.
RECURSIVE FencedMatchFrom(_, _)
FencedMatchFrom(t, p) ==
    IF p + 3 > Len(t) THEN [found |-> FALSE, group |-> <<>>]
    ELSE IF t[p] = "bt" /\ t[p + 1] = "bt" /\ t[p + 2] = "bt" /\ t[p + 3] = "j"
              /\ LET o == SkipSpace(t, p + 4)
                 IN  o <= Len(t) /\ t[o] = "{" /\ FenceClose(t, o + 1) # 0
    THEN LET o == SkipSpace(t, p + 4)
         IN  [found |-> TRUE, group |-> SubSeq(t, o, FenceClose(t, o + 1))]
    ELSE FencedMatchFrom(t, p + 1)

FencedMatch(t) == FencedMatchFrom(t, 1)

\* The forward scan with brace balance from start (1-based): the index just
\* past the closing brace at which the count returns to zero, else past the end.
RECURSIVE BalanceEnd(_, _, _)
BalanceEnd(t, j, brace) ==
    IF j > Len(t) THEN Len(t) + 1
    ELSE IF t[j] = "{" THEN BalanceEnd(t, j + 1, brace + 1)
    ELSE IF t[j] = "}"
         THEN IF brace - 1 = 0 THEN j + 1 ELSE BalanceEnd(t, j + 1, brace - 1)
    ELSE BalanceEnd(t, j + 1, brace)

\* Mutant: no candidate at all when the anchor key is absent.
AnchorCandidate_KeyRequired(t) ==
    LET key_idx == IndexFrom(t, "K", 1)
        i == IF key_idx = 0 THEN 0 ELSE LastIndexUpTo(t, "{", key_idx)
        start_idx == IF i = 0 THEN 1 ELSE i
    IN  IF key_idx = 0 THEN <<>>
        ELSE Strip(SubSeq(t, start_idx, BalanceEnd(t, start_idx, 0) - 1))

\* Fallback 2: the candidate around the anchor key, or the whole text when the
\* key is absent (start_idx = 0, end_idx = len).
AnchorCandidate(t) ==
    LET key_idx == IndexFrom(t, "K", 1)
        i == IF key_idx = 0 THEN 0 ELSE LastIndexUpTo(t, "{", key_idx)
        start_idx == IF i = 0 THEN 1 ELSE i
        end_idx == IF key_idx = 0 THEN Len(t) + 1 ELSE BalanceEnd(t, start_idx, 0)
    IN  Strip(SubSeq(t, start_idx, end_idx - 1))

\* The dual-output block: rag_explanation and rag_json from raw_text.
Split(raw_text) ==
    LET raw_for_json == Normalize(raw_text)
        m == MarkerMatch(raw_for_json)
        m2 == IndexFrom(raw_text, "S", 1)
        explanation == IF m.found /\ m2 # 0
                       THEN Strip(SubSeq(raw_text, 1, m2 - 1)) ELSE raw_text
        j1 == IF m.found THEN JsonLoads(Strip(m.group)) ELSE None
        m_json == FencedMatch(raw_for_json)
        j2 == IF j1 = None /\ m_json.found THEN JsonLoads(Strip(m_json.group)) ELSE j1
        candidate == AnchorCandidate(raw_for_json)
        j3 == IF j2 = None /\ candidate # <<>>
                   /\ Head(candidate) = "{" /\ candidate[Len(candidate)] = "}"
              THEN JsonLoads(candidate) ELSE j2
    IN  [rag_explanation |-> explanation, rag_json |-> j3]

----------------------------------------------------------------------------
(* Report assembly (_run_pipeline, from "Build HTML worknotes") *)

\* isinstance(v, str) and v.strip()
IsTextual(v) == v.t = "str" /\ Strip(v.s) # <<>>

\* str.replace("canonical fallback", "project documentation") on atoms: "cf"
\* is the first phrase, "pd" the second.
ReplaceFallback(s) == [i \in 1..Len(s) |-> IF s[i] = "cf" THEN "pd" ELSE s[i]]

\* <li>html.escape(str(item))</li> for each item, the KB list with the
\* fallback phrase replaced first.
ListItems(items, kb) ==
    [i \in 1..Len(items) |->
        <<"<li>">>
          \o HtmlEscape(IF kb THEN ReplaceFallback(StrOf(items[i]).s) ELSE StrOf(items[i]).s)
          \o <<"</li>">>]

\* (step or {}).get("command") raises on a truthy step that is not a mapping.
StepRaises(step) == Truthy(step) /\ step.t # "dict"

StepCommand(step) == IF Truthy(step) THEN DictGet(step, "command") ELSE None

\* The commands gathered from next_steps, stripped, in order.
RECURSIVE Commands(_, _)
Commands(steps, i) ==
    IF i > Len(steps) THEN <<>>
    ELSE LET cmd == StepCommand(steps[i])
         IN  (IF IsTextual(cmd) THEN <<Strip(cmd.s)>> ELSE <<>>) \o Commands(steps, i + 1)

\* json.dumps(proposed, indent=2): the dump "D" followed by the texts the
\* mapping holds, which json.dumps leaves as they are.
RECURSIVE DumpValues(_, _)
DumpValues(d, ks) ==
    IF ks = {} THEN <<>>
    ELSE LET k == CHOOSE x \in ks : TRUE
         IN  (IF d[k].t = "str" THEN d[k].s ELSE <<>>) \o DumpValues(d, ks \ {k})

JsonDumps(v) == <<"D">> \o DumpValues(v.d, DOMAIN v.d)

\* The section list rag_parts of a non-empty findings dict; raised when
\* html.escape meets a non-string or a step is not a mapping.
Sections(rag_json) ==
    LET probable   == Or(DictGet(rag_json, "probable_cause"), Str(<<>>))
        evidence   == Or(DictGet(rag_json, "evidence_mapping"), List(<<>>))
        next_steps == Or(DictGet(rag_json, "next_steps"), List(<<>>))
        proposed   == Or(DictGet(rag_json, "proposed_remediation_via_aap"), Dict(EmptyMap))
        kb         == Or(DictGet(rag_json, "key_kb_evidence"), List(<<>>))
        ref_doc    == Or(DictGet(rag_json, "reference_document"), Str(<<>>))
        raised == \/ Truthy(probable) /\ probable.t # "str"
                  \/ /\ next_steps.t = "list"
                     /\ \E i \in 1..Len(next_steps.items) : StepRaises(next_steps.items[i])
        p1 == <<<<"<h4>1) Probable cause</h4>">>>>
                \o (IF Truthy(probable)
                    THEN <<<<"<p>">> \o HtmlEscape(probable.s) \o <<"</p>">>>> ELSE <<>>)
        p2 == IF evidence.t = "list" /\ Truthy(evidence)
              THEN <<<<"<h4>2) Evidence mapping</h4>">>, <<"<ul>">>>>
                     \o ListItems(evidence.items, FALSE) \o <<<<"</ul>">>>>
              ELSE <<>>
        commands == Commands(next_steps.items, 1)
        p3 == IF next_steps.t = "list" /\ Truthy(next_steps)
              THEN <<<<"<h4>3) Next steps</h4>">>>>
                     \o (IF commands # <<>>
                         THEN <<<<"<pre><code>">> \o HtmlEscape(JoinLines(commands))
                                  \o <<"</code></pre>">>>>
                         ELSE <<>>)
              ELSE <<>>
        p4 == IF proposed.t = "dict" /\ Truthy(proposed)
              THEN <<<<"<h4>4) Proposed remediation via AAP</h4>">>,
                     <<"<pre><code>">> \o HtmlEscape(JsonDumps(proposed)) \o <<"</code></pre>">>>>
              ELSE <<>>
        p5 == IF kb.t = "list" /\ Truthy(kb)
              THEN <<<<"<h4>5) Key KB evidence</h4>">>, <<"<ul>">>>>
                     \o ListItems(kb.items, TRUE) \o <<<<"</ul>">>>>
              ELSE <<>>
        p6 == IF IsTextual(ref_doc)
              THEN <<<<"<h4>6) Reference document</h4>">>,
                     <<"<p><em>">> \o HtmlEscape(Strip(ref_doc.s)) \o <<"</em></p>">>>>
              ELSE <<>>
    IN  [raised |-> raised,
         parts |-> IF raised THEN <<>> ELSE p1 \o p2 \o p3 \o p4 \o p5 \o p6]

\* rag_section_html: the sections of a non-empty findings dict, else the
\* rendered explanation.
RagSection(rag_explanation, rag_json) ==
    IF rag_json.t = "dict" /\ Truthy(rag_json)
    THEN LET sec == Sections(rag_json)
         IN  [raised |-> sec.raised, html |-> JoinLines(sec.parts)]
    ELSE [raised |-> FALSE,
          html |-> render_simple_markdown_to_html(
                       IF rag_explanation # <<>> THEN rag_explanation ELSE <<"NORAG">>)]

\* worknotes_wrapped
Assemble(mcp_findings, rag_explanation, rag_json) ==
    LET mf_html == render_simple_markdown_to_html(
                       IF mcp_findings # <<>> THEN mcp_findings ELSE <<"NOMCP">>)
        sec == RagSection(rag_explanation, rag_json)
    IN  [raised |-> sec.raised,
         worknotes |-> IF sec.raised THEN <<>>
                       ELSE <<"[code]", "<h2>", "<hr />", "<h3>Phase 1</h3>", "\n">>
                              \o mf_html \o <<"\n", "<h3>Phase 2</h3>", "\n">>
                              \o sec.html
                              \o <<"\n", "<hr />", "<p><strong>End</strong></p>", "[/code]">>]

----------------------------------------------------------------------------
(* _get_text_from_turn_like_notebook *)

\* for c in (item.get("content") or []): the texts of the typed dict entries.
RECURSIVE TurnContentPieces(_, _)
TurnContentPieces(cl, i) ==
    IF i > Len(cl) THEN <<>>
    ELSE LET c == cl[i]
             hit == /\ c.t = "dict"
                    /\ DictGet(c, "type") \in {Str(<<"output_text">>), Str(<<"text">>)}
                    /\ "text" \in DOMAIN c.d
                    /\ c.d["text"].t = "str" /\ Truthy(c.d["text"])
         IN  (IF hit THEN <<c.d["text"].s>> ELSE <<>>) \o TurnContentPieces(cl, i + 1)

\* An item of d["output"] that makes the loop raise: no .get, or a content
\* that cannot be iterated.
TurnItemRaises(item) ==
    \/ item.t # "dict"
    \/ Truthy(DictGet(item, "content")) /\ ~Iterable(DictGet(item, "content"))

\* for item in (d.get("output") or []): pieces, in forward order.
RECURSIVE TurnPieces(_, _)
TurnPieces(items, i) ==
    IF i > Len(items) THEN <<>>
    ELSE LET content == Or(DictGet(items[i], "content"), List(<<>>))
         IN  TurnContentPieces(ItemsOf(content), 1) \o TurnPieces(items, i + 1)

\* The dict export of the turn: to_dict() when present, the turn itself when it
\* is a dict, else None.
TurnDict(turn) ==
    IF HasAttr(turn, "to_dict") THEN turn.attrs["to_dict"]
    ELSE IF turn.t = "dict" THEN turn ELSE None

\* The try block of the function: a value returned, nothing, or an exception
\* (which the function swallows).
TurnTry(turn) ==
    LET t == GetAttr(turn, "output_text")
        d == TurnDict(turn)
        output == Or(DictGet(d, "output"), List(<<>>))
        items == ItemsOf(output)
        pieces == TurnPieces(items, 1)
        txt2 == DictGet(d, "text")
    IN  IF IsTextual(t) THEN Ret(t)
        ELSE IF d.t # "dict" THEN Nothing
        ELSE IF ~Iterable(output) \/ \E i \in 1..Len(items) : TurnItemRaises(items[i])
        THEN Raise
        ELSE IF pieces # <<>> THEN Ret(Str(JoinLines(pieces)))
        ELSE IF IsTextual(txt2) THEN Ret(txt2)
        ELSE Nothing

get_text_from_turn_like_notebook(turn) ==
    LET r == TurnTry(turn)
    IN  IF r.k = "ret" THEN r ELSE extract_output_text(turn)

----------------------------------------------------------------------------
(* Incident question (_run_pipeline, lines 302-319) *)

QuestionFields ==
    <<"incident_question", "question", "incident", "description", "short_description">>

\* payload.get(f1) or payload.get(f2) or ... or ""
RECURSIVE FieldChain(_, _)
FieldChain(payload, i) ==
    IF i > Len(QuestionFields) THEN Str(<<>>)
    ELSE Or(DictGet(payload, QuestionFields[i]), FieldChain(payload, i + 1))

\* "Please investigate the following incident.\n" + summarize_incident_payload
FallbackQuestion == <<"PLEASE", "\n", "SUMMARY">>

IncidentQuestion(payload) ==
    LET maybe_q == IF payload.t = "str" THEN payload
                   ELSE IF payload.t = "dict" THEN FieldChain(payload, 1)
                   ELSE None
    IN  IF IsTextual(maybe_q) THEN Strip(maybe_q.s) ELSE FallbackQuestion

----------------------------------------------------------------------------
(* Cleanup of pseudo tool-call echoes (_run_pipeline, lines 337-346) *)

\* re.match(r"^\s*\[[A-Za-z_]+\(", ln) and ln.strip().endswith(")"): the atom
\* "[f(" is an opening bracket, a name and an opening parenthesis.
IsEcho(ln) ==
    LET st == Strip(ln)
    IN  st # <<>> /\ Head(st) = "[f(" /\ st[Len(st)] = ")"

RECURSIVE DropEchoes(_)
DropEchoes(lines) ==
    IF lines = <<>> THEN <<>>
    ELSE (IF IsEcho(Head(lines)) THEN <<>> ELSE <<Head(lines)>>) \o DropEchoes(Tail(lines))

CleanFindings(text) == Strip(JoinLines(DropEchoes(SplitLines(text))))

----------------------------------------------------------------------------
(* The /diagnose handler and _run_pipeline as a state machine *)

\* The locals of one invocation.  Texts are atom sequences; session_id 0 means
\* no session yet.
ReqInit ==
    [pc |-> "idle", payload |-> None, incident_question |-> <<>>,
     mcp_result |-> None, mcp_findings |-> <<>>, session_id |-> 0,
     rag_result |-> None, raw_text |-> <<>>, rag_explanation |-> <<>>,
     rag_json |-> None, worknotes |-> <<>>, status |-> 0, detail |-> <<>>]

\* raise HTTPException(status_code, detail): the locals are gone.
Failed(status, detail) ==
    [ReqInit EXCEPT !.pc = "error", !.status = status, !.detail = detail]

McpFailed(cause) == Failed(500, <<"MCP diagnostics failed", cause>>)

RagFailed(cause) == Failed(500, <<"RAG correlation failed", cause>>)

\* A remote call issued by invocation i, and whether it returned (ok) or raised.
Call(i, name, ok) ==
    calls' = [calls EXCEPT ![i] = Append(@, [name |-> name, ok |-> ok])]

\* Request bodies, tool-augmented responses and turn results of the pipeline
\* specification (the function specifications draw from wider sets).
PipelinePayloads == {Str(<<"w">>)}

PipelineResponses ==
    {Obj([output_text |-> Str(<<"*", " ", "w">>)]),
     Dict([output |-> List(<<Str(<<"w">>)>>)])}

PipelineTurns ==
    {Obj([output_text |-> Str(<<"w", "S", "{", "a", "}", "E">>)]),
     Obj([output_text |-> Str(<<"S", "{", "c", "}", "E">>)]),
     Obj([output_text |-> Str(<<"w">>)])}

\* diagnose, lines 538-552: the body parsed, 400 when there is none.
Diagnose(i) ==
    /\ req[i].pc = "idle"
    /\ \E payload \in PipelinePayloads \cup {None} :
          req' = [req EXCEPT ![i] =
                    IF payload = None
                    THEN Failed(400, <<"Request body must be JSON or plain text">>)
                    ELSE [@ EXCEPT !.pc = "d_select", !.payload = payload]]
    /\ UNCHANGED <<env, rag_agent_cache, calls, sessions, turns, rd>>

\* diagnose, lines 553-554: select_model lists the models; its exception is
\* not caught by the handler.
DiagnoseSelectModel(i) ==
    /\ req[i].pc = "d_select"
    /\ \E ok \in BOOLEAN :
          /\ Call(i, "models.list", ok)
          /\ req' = [req EXCEPT ![i] =
                       IF ok THEN [@ EXCEPT !.pc = "derive"]
                       ELSE Failed(500, <<"Internal Server Error">>)]
    /\ UNCHANGED <<env, rag_agent_cache, sessions, turns, rd>>

\* _run_pipeline, lines 302-319.
DeriveQuestion(i) ==
    /\ req[i].pc = "derive"
    /\ req' = [req EXCEPT ![i].pc = "p_select",
                          ![i].incident_question = IncidentQuestion(req[i].payload)]
    /\ UNCHANGED <<env, rag_agent_cache, calls, sessions, turns, rd>>

\* _run_pipeline, lines 321-322: get_client and select_model again.
PipelineSelectModel(i) ==
    /\ req[i].pc = "p_select"
    /\ \E ok \in BOOLEAN :
          /\ Call(i, "models.list", ok)
          /\ req' = [req EXCEPT ![i] =
                       IF ok THEN [@ EXCEPT !.pc = "mcp_server"]
                       ELSE McpFailed("select_model failed")]
    /\ UNCHANGED <<env, rag_agent_cache, sessions, turns, rd>>

\* get_mcp_server with the URL in the environment.
GetMcpServerEnv(i) ==
    /\ req[i].pc = "mcp_server"
    /\ env.mcp_url
    /\ req' = [req EXCEPT ![i].pc = "mcp_instr"]
    /\ UNCHANGED <<env, rag_agent_cache, calls, sessions, turns, rd>>

\* get_mcp_server without it: the toolgroups are listed; no URI found (or the
\* listing failed) raises "MCP server URL not configured".
GetMcpServerDiscover(i) ==
    /\ req[i].pc = "mcp_server"
    /\ ~env.mcp_url
    /\ \E found \in BOOLEAN :
          /\ Call(i, "toolgroups.list", found)
          /\ req' = [req EXCEPT ![i] =
                       IF found THEN [@ EXCEPT !.pc = "mcp_instr"]
                       ELSE McpFailed("MCP server URL not configured")]
    /\ UNCHANGED <<env, rag_agent_cache, sessions, turns, rd>>

\* build_mcp_instructions
BuildMcpInstructions(i) ==
    /\ req[i].pc = "mcp_instr"
    /\ req' = [req EXCEPT ![i] =
                 IF env.mcp_prompt THEN [@ EXCEPT !.pc = "responses"]
                 ELSE McpFailed("K8S_MCP_AGENT_PROMPT is not set")]
    /\ UNCHANGED <<env, rag_agent_cache, calls, sessions, turns, rd>>

\* client.responses.create returned.
ResponsesCreateOk(i) ==
    /\ req[i].pc = "responses"
    /\ Call(i, "responses.create", TRUE)
    /\ \E r \in PipelineResponses :
          req' = [req EXCEPT ![i].pc = "mcp_extract", ![i].mcp_result = r]
    /\ UNCHANGED <<env, rag_agent_cache, sessions, turns, rd>>

\* Mutant: the exception of the diagnostics call is swallowed and the pipeline
\* goes on with no result.
ResponsesCreateFail_Swallowed(i) ==
    /\ req[i].pc = "responses"
    /\ Call(i, "responses.create", FALSE)
    /\ req' = [req EXCEPT ![i].pc = "mcp_extract"]
    /\ UNCHANGED <<env, rag_agent_cache, sessions, turns, rd>>

\* client.responses.create raised: caught at line 349.
ResponsesCreateFail(i) ==
    /\ req[i].pc = "responses"
    /\ Call(i, "responses.create", FALSE)
    /\ req' = [req EXCEPT ![i] = McpFailed("responses.create failed")]
    /\ UNCHANGED <<env, rag_agent_cache, sessions, turns, rd>>

\* Lines 335-348: extract_output_text(mcp_result).strip() and the cleanup; an
\* exception of the extractor, or .strip() on a non-string, is caught at 349.
ExtractFindings(i) ==
    /\ req[i].pc = "mcp_extract"
    /\ LET r == extract_output_text(req[i].mcp_result)
       IN  req' = [req EXCEPT ![i] =
                     IF r.k = "raise" THEN McpFailed("extract_output_text raised")
                     ELSE IF r.v.t # "str" THEN McpFailed("text is not a string")
                     ELSE [@ EXCEPT !.pc = "rag_agent",
                                    !.mcp_findings = CleanFindings(Strip(r.v.s))]]
    /\ UNCHANGED <<env, rag_agent_cache, calls, sessions, turns, rd>>

\* get_rag_agent, memoized by lru_cache: a hit.
GetRagAgentCached(i) ==
    /\ req[i].pc = "rag_agent"
    /\ rag_agent_cache
    /\ req' = [req EXCEPT ![i].pc = "create_session"]
    /\ UNCHANGED <<env, rag_agent_cache, calls, sessions, turns, rd>>

\* get_rag_agent, a miss: select_model lists the models and the agent is
\* built; an exception is not memoized and is caught at line 444.
GetRagAgentCompute(i) ==
    /\ req[i].pc = "rag_agent"
    /\ ~rag_agent_cache
    /\ \E ok \in BOOLEAN :
          /\ Call(i, "models.list", ok)
          /\ rag_agent_cache' = ok
          /\ req' = [req EXCEPT ![i] =
                       IF ok THEN [@ EXCEPT !.pc = "create_session"]
                       ELSE RagFailed("select_model failed")]
    /\ UNCHANGED <<env, sessions, turns, rd>>

\* rag_agent.create_session returned a new session; session_id is its id.
CreateSessionOk(i) ==
    /\ req[i].pc = "create_session"
    /\ Call(i, "create_session", TRUE)
    /\ sessions' = Append(sessions, i)
    /\ req' = [req EXCEPT ![i].pc = "rag_instr", ![i].session_id = Len(sessions) + 1]
    /\ UNCHANGED <<env, rag_agent_cache, turns, rd>>

\* rag_agent.create_session raised.
CreateSessionFail(i) ==
    /\ req[i].pc = "create_session"
    /\ Call(i, "create_session", FALSE)
    /\ req' = [req EXCEPT ![i] = RagFailed("create_session failed")]
    /\ UNCHANGED <<env, rag_agent_cache, sessions, turns, rd>>

\* build_rag_correlation_instructions, called while rag_messages is built.
BuildRagInstructions(i) ==
    /\ req[i].pc = "rag_instr"
    /\ req' = [req EXCEPT ![i] =
                 IF env.rag_prompt THEN [@ EXCEPT !.pc = "create_turn"]
                 ELSE RagFailed("RAG_CORRELATION_AGENT_PROMPT is not set")]
    /\ UNCHANGED <<env, rag_agent_cache, calls, sessions, turns, rd>>

\* Mutant: the turn is issued in the agent's most recent session instead of
\* the session this invocation created.
CreateTurnOk_LatestSession(i) ==
    /\ req[i].pc = "create_turn"
    /\ Call(i, "create_turn", TRUE)
    /\ turns' = turns \cup {[inv |-> i, session_id |-> Len(sessions)]}
    /\ \E r \in PipelineTurns :
          req' = [req EXCEPT ![i].pc = "split", ![i].rag_result = r]
    /\ UNCHANGED <<env, rag_agent_cache, sessions, rd>>

\* rag_agent.create_turn(messages, session_id=session_id) returned.
CreateTurnOk(i) ==
    /\ req[i].pc = "create_turn"
    /\ Call(i, "create_turn", TRUE)
    /\ turns' = turns \cup {[inv |-> i, session_id |-> req[i].session_id]}
    /\ \E r \in PipelineTurns :
          req' = [req EXCEPT ![i].pc = "split", ![i].rag_result = r]
    /\ UNCHANGED <<env, rag_agent_cache, sessions, rd>>

\* rag_agent.create_turn raised.
CreateTurnFail(i) ==
    /\ req[i].pc = "create_turn"
    /\ Call(i, "create_turn", FALSE)
    /\ turns' = turns \cup {[inv |-> i, session_id |-> req[i].session_id]}
    /\ req' = [req EXCEPT ![i] = RagFailed("create_turn failed")]
    /\ UNCHANGED <<env, rag_agent_cache, sessions, rd>>

\* Lines 376-443: the turn text, stripped, and the dual-output extraction.
SplitStep(i) ==
    /\ req[i].pc = "split"
    /\ LET r == get_text_from_turn_like_notebook(req[i].rag_result)
       IN  req' = [req EXCEPT ![i] =
                     IF r.k = "raise" THEN RagFailed("extract_output_text raised")
                     ELSE IF r.v.t # "str" THEN RagFailed("text is not a string")
                     ELSE LET raw_text == Strip(r.v.s)
                              sp == Split(raw_text)
                          IN  [@ EXCEPT !.pc = "assemble", !.raw_text = raw_text,
                                        !.rag_explanation = sp.rag_explanation,
                                        !.rag_json = sp.rag_json]]
    /\ UNCHANGED <<env, rag_agent_cache, calls, sessions, turns, rd>>

\* Lines 448-533: the work notes and the returned result; an exception here is
\* caught by nothing.
AssembleStep(i) ==
    /\ req[i].pc = "assemble"
    /\ LET a == Assemble(req[i].mcp_findings, req[i].rag_explanation, req[i].rag_json)
       IN  req' = [req EXCEPT ![i] =
                     IF a.raised
                     THEN [@ EXCEPT !.pc = "crashed", !.status = 500,
                                    !.detail = <<"Internal Server Error">>]
                     ELSE [@ EXCEPT !.pc = "done", !.status = 200,
                                    !.worknotes = a.worknotes]]
    /\ UNCHANGED <<env, rag_agent_cache, calls, sessions, turns, rd>>

Envs == [mcp_url : BOOLEAN, mcp_prompt : BOOLEAN, rag_prompt : BOOLEAN]

\* A fresh process: nothing memoized, no request received.
Init ==
    /\ env \in Envs
    /\ rag_agent_cache = FALSE
    /\ req = [i \in Inv |-> ReqInit]
    /\ calls = [i \in Inv |-> <<>>]
    /\ sessions = <<>>
    /\ turns = {}
    /\ rd = [pc |-> "off"]

Next ==
    \E i \in Inv :
        \/ Diagnose(i)
        \/ DiagnoseSelectModel(i)
        \/ DeriveQuestion(i)
        \/ PipelineSelectModel(i)
        \/ GetMcpServerEnv(i)
        \/ GetMcpServerDiscover(i)
        \/ BuildMcpInstructions(i)
        \/ ResponsesCreateOk(i)
        \/ ResponsesCreateFail(i)
        \/ ExtractFindings(i)
        \/ GetRagAgentCached(i)
        \/ GetRagAgentCompute(i)
        \/ CreateSessionOk(i)
        \/ CreateSessionFail(i)
        \/ BuildRagInstructions(i)
        \/ CreateTurnOk(i)
        \/ CreateTurnFail(i)
        \/ SplitStep(i)
        \/ AssembleStep(i)

Spec == Init /\ [][Next]_vars

----------------------------------------------------------------------------
(* Properties of the pipeline *)

\* The positions of the calls named name in the history of invocation i.
CallsOf(i, name) == {k \in 1..Len(calls[i]) : calls[i][k].name = name}

\* The sessions the service created for invocation i.
SessionsOf(i) == {n \in 1..Len(sessions) : sessions[n] = i}

\* C1: when the tool-augmented diagnostics call fails, the invocation issues no
\* further remote call (no create_session, no create_turn), owns no session and
\* no turn, and ends with the error "MCP diagnostics failed: <cause>" and no
\* result.
C1_DiagnosticsFailureAborts ==
    \A i \in Inv : \A k \in CallsOf(i, "responses.create") :
        ~calls[i][k].ok =>
            /\ k = Len(calls[i])
            /\ SessionsOf(i) = {}
            /\ \A t \in turns : t.inv # i
            /\ req[i].pc = "error"
            /\ req[i].status = 500
            /\ req[i].detail = <<"MCP diagnostics failed", "responses.create failed">>
            /\ req[i].worknotes = <<>>

\* An invocation whose diagnostics call failed while another one holds a session.
C1_Witness ==
    \E i \in Inv :
        /\ calls[i] # <<>>
        /\ calls[i][Len(calls[i])] = [name |-> "responses.create", ok |-> FALSE]
        /\ req[i].pc = "error"
        /\ Len(sessions) > 0

ConfigCauses ==
    {"MCP server URL not configured", "K8S_MCP_AGENT_PROMPT is not set",
     "RAG_CORRELATION_AGENT_PROMPT is not set"}

\* C2: an invocation that ends with a configuration error (instruction text or
\* MCP endpoint missing) has issued no remote call before it.
C2_ConfigErrorBeforeRemoteCalls ==
    \A i \in Inv :
        (req[i].pc = "error" /\ Len(req[i].detail) = 2 /\ req[i].detail[2] \in ConfigCauses)
            => calls[i] = <<>>

\* C3: once create_turn has returned, the invocation goes on to return a
\* result: extraction and assembly raise nothing.
C3_ResultAfterBothCalls ==
    \A i \in Inv :
        (\E k \in CallsOf(i, "create_turn") : calls[i][k].ok)
            => req[i].pc \in {"split", "assemble", "done"}

----------------------------------------------------------------------------
(* The functions on their own: one invocation, started where the function is
   applied, its input drawn from a set of values of every shape *)

OkCall(name) == [name |-> name, ok |-> TRUE]

\* The remote calls behind an invocation that reached the diagnostics text, and
\* behind one that reached the correlation text.
CallsToDiagnostics ==
    <<OkCall("models.list"), OkCall("models.list"), OkCall("responses.create")>>

CallsToCorrelation ==
    CallsToDiagnostics \o <<OkCall("models.list"), OkCall("create_session"),
                            OkCall("create_turn")>>

\* Invocation 1 is in state r with call history h; the others are idle.
SoloInit(r, h, agent, sess) ==
    /\ env = [mcp_url |-> TRUE, mcp_prompt |-> TRUE, rag_prompt |-> TRUE]
    /\ rag_agent_cache = agent
    /\ req = [i \in Inv |-> IF i = 1 THEN r ELSE ReqInit]
    /\ calls = [i \in Inv |-> IF i = 1 THEN h ELSE <<>>]
    /\ sessions = sess
    /\ turns = IF sess = <<>> THEN {} ELSE {[inv |-> 1, session_id |-> 1]}
    /\ rd = [pc |-> "off"]

(* Incident question *)

FieldIndex == 1..Len(QuestionFields)

\* What a field of the JSON body may hold: nothing, "", blanks, a text of its
\* own ("q1".."q5", with a leading blank), or a number.
FieldShapes == {"absent", "empty", "blank", "text", "number"}

FieldText(n) == <<"q1", "q2", "q3", "q4", "q5">>[n]

FieldValue(shape, n) ==
    CASE shape = "empty"  -> Str(<<>>)
      [] shape = "blank"  -> Str(<<" ">>)
      [] shape = "text"   -> Str(<<" ", FieldText(n)>>)
      [] OTHER            -> Num(7)

\* The position of a field name in QuestionFields.
FieldPos(f) == CHOOSE n \in FieldIndex : QuestionFields[n] = f

PayloadOf(shapes) ==
    Dict([f \in {QuestionFields[n] : n \in {m \in FieldIndex : shapes[m] # "absent"}}
            |-> FieldValue(shapes[FieldPos(f)], FieldPos(f))])

QuestionPayloads ==
    {PayloadOf(sh) : sh \in [FieldIndex -> FieldShapes]}
        \cup {Str(<<" ", "w", " ">>), Str(<<" ">>), Num(7), List(<<>>)}

InitQuestion ==
    \E p \in QuestionPayloads :
        SoloInit([ReqInit EXCEPT !.pc = "derive", !.payload = p],
                 <<OkCall("models.list")>>, FALSE, <<>>)

NextQuestion == DeriveQuestion(1)

SpecQuestion == InitQuestion /\ [][NextQuestion]_vars

\* The fields of a JSON body that hold a string with something in it.
TextFields(payload) ==
    {n \in FieldIndex : /\ QuestionFields[n] \in DOMAIN payload.d
                        /\ IsTextual(payload.d[QuestionFields[n]])}

\* A field that holds only blanks: a string that is not empty but trims to "".
HasBlankField(payload) ==
    \E f \in DOMAIN payload.d : payload.d[f].t = "str" /\ Truthy(payload.d[f])
                                  /\ ~IsTextual(payload.d[f])

\* C4: for a JSON-object body, incident_question is the trimmed value of the
\* first field, in priority order, that holds a non-empty string, whatever the
\* fields before it hold (absent, not a string, or empty); the fallback
\* question is used only when no field holds one.  Bodies with a field of
\* blanks only are left aside.
C4_FirstNonEmptyStringField ==
    \A i \in Inv :
        (/\ req[i].pc = "p_select" /\ req[i].payload.t = "dict"
         /\ ~HasBlankField(req[i].payload)) =>
            LET good == TextFields(req[i].payload)
                first == CHOOSE n \in good : \A m \in good : n <= m
            IN  req[i].incident_question =
                    IF good = {} THEN FallbackQuestion
                    ELSE Strip(req[i].payload.d[QuestionFields[first]].s)

(* extract_output_text *)

\* How many items an output list holds at most.
MaxItems == 2

TextValues == {Str(<<"t1">>), Str(<<"t2">>), Str(<<>>), None, Num(5)}

\* Content lists, of attribute objects (wrap = Obj) or of mappings (wrap = Dict).
ContentsOf(Wrap(_)) ==
    {None,
     List(<<Str(<<"w">>)>>),
     List(<<Wrap([text |-> Str(<<>>)]), Wrap([text |-> Str(<<"t2">>)])>>)}
        \cup {List(<<Wrap([text |-> v])>>) : v \in TextValues}

ItemsOfShape(Wrap(_)) ==
    {Wrap([type |-> Str(<<ty>>), content |-> c]) :
         ty \in {"message", "tool"}, c \in ContentsOf(Wrap)}
        \cup {Wrap([type |-> Str(<<"message">>)])}

OutputItems == ItemsOfShape(Obj) \cup ItemsOfShape(Dict) \cup {Str(<<"w">>)}

RECURSIVE SeqsUpTo(_, _)
SeqsUpTo(set, n) ==
    IF n = 0 THEN {<<>>}
    ELSE LET shorter == SeqsUpTo(set, n - 1)
         IN  shorter \cup {Append(q, x) : q \in {r \in shorter : Len(r) = n - 1}, x \in set}

OutputValues == {List(q) : q \in SeqsUpTo(OutputItems, MaxItems)} \cup {None, Num(5)}

\* The four shapes: an object with output, with output_text, a dict mirroring
\* them, and values that are none of these.
Responses ==
    {Obj([output |-> o]) : o \in OutputValues}
        \cup {Obj([output |-> o, output_text |-> t]) :
                  o \in {None, Num(5), List(<<>>), List(<<Obj([type |-> Str(<<"tool">>)])>>)},
                  t \in {Str(<<"t3">>), Str(<<>>), Num(5)}}
        \cup {Dict([output |-> o]) : o \in OutputValues}
        \cup {Dict([output_text |-> Str(<<"t3">>)]), Dict(EmptyMap),
              Obj(EmptyMap), Str(<<"w">>), Num(5), None}

InitExtract ==
    \E r \in Responses :
        SoloInit([ReqInit EXCEPT !.pc = "mcp_extract", !.payload = Str(<<"w">>),
                                 !.incident_question = <<"w">>, !.mcp_result = r],
                 CallsToDiagnostics, FALSE, <<>>)

NextExtract == ExtractFindings(1)

SpecExtract == InitExtract /\ [][NextExtract]_vars

\* C8: extract_output_text returns a string for every response value and
\* raises nothing.
C8_ExtractTextTotal ==
    \A i \in Inv :
        req[i].detail \notin
            {<<"MCP diagnostics failed", "extract_output_text raised">>,
             <<"MCP diagnostics failed", "text is not a string">>}

(* Structured-result extraction *)

\* Length of the correlation texts enumerated in full.
MaxTextLen == 4

TextAtoms == {"w", " ", "S", "E", "{", "}", "a", "K", "F"}

\* JSON objects, the blanks around them, and the prose between the parts of a
\* longer text.
JsonObjects ==
    {<<"{", "a", "}">>, <<"{", "b", "}">>, <<"{", "}">>,
     <<"{", "a", "K", "{", "b", "}", "}">>,
     <<"{", "k", "{", "m", "}", "K", "{", "a", "}", "}">>}

Gaps == {<<>>, <<"\n">>}

Prose == {<<>>, <<"w", " ">>, <<"B">>}

MarkerRegions == {<<"S">> \o g \o o \o g \o <<"E">> : g \in Gaps, o \in JsonObjects}

FencedBlocks == {<<"F", "j">> \o g \o o \o g \o <<"F">> : g \in Gaps, o \in JsonObjects}

\* A marker region and a fenced json block, in either order, and each alone,
\* with prose around them.
LongTexts ==
    {p \o x \o q \o y \o r : p \in Prose, q \in Prose, r \in {<<>>, <<" ", "w">>},
                            x \in MarkerRegions \cup {<<>>},
                            y \in FencedBlocks \cup {<<>>}}
        \cup {p \o y \o q \o x : p \in Prose, q \in Prose,
                                 x \in MarkerRegions, y \in FencedBlocks}
        \cup {p \o o \o q : p \in Prose, q \in Prose, o \in JsonObjects}

CorrelationTexts == SeqsUpTo(TextAtoms, MaxTextLen) \cup LongTexts

\* The turn result carries the text in output_text.
InitSplit ==
    \E t \in CorrelationTexts :
        SoloInit([ReqInit EXCEPT !.pc = "split", !.payload = Str(<<"w">>),
                                 !.incident_question = <<"w">>,
                                 !.mcp_findings = <<"w">>, !.session_id = 1,
                                 !.rag_result = Obj([output_text |-> Str(t)])],
                 CallsToCorrelation, TRUE, <<1>>)

NextSplit == SplitStep(1)

SpecSplit == InitSplit /\ [][NextSplit]_vars

\* The marker region of a text: what lies between the first start marker and
\* the last end marker.
RegionStart(raw) == IndexFrom(raw, "S", 1)

RegionEnd(raw) == LastIndexUpTo(raw, "E", Len(raw))

HasRegion(raw) == RegionStart(raw) # 0 /\ RegionStart(raw) < RegionEnd(raw)

RegionObject(raw) == JsonLoads(SubSeq(raw, RegionStart(raw) + 1, RegionEnd(raw) - 1))

\* A fenced block tagged json from p to q that lies outside the marker region
\* and holds a JSON object other than the region's.
SeparateFencedObject(raw, p, q) ==
    /\ p + 1 < q
    /\ raw[p] = "F" /\ raw[p + 1] = "j" /\ raw[q] = "F"
    /\ q < RegionStart(raw) \/ p > RegionEnd(raw)
    /\ JsonLoads(SubSeq(raw, p + 2, q - 1)) \notin {None, RegionObject(raw)}

BothPresent(raw) ==
    /\ HasRegion(raw)
    /\ RegionObject(raw) # None
    /\ \E p, q \in 1..Len(raw) : SeparateFencedObject(raw, p, q)

NoStrategyApplies(raw) ==
    /\ ~HasRegion(raw)
    /\ ~\E p \in 1..Len(raw) - 1 : raw[p] = "F" /\ raw[p + 1] = "j"
    /\ IndexFrom(raw, "K", 1) = 0

\* C6 as stated: when no strategy applies, findings is null and explanation is
\* the raw text.
C6_NothingRecoverable ==
    \A i \in Inv :
        (req[i].pc = "assemble" /\ NoStrategyApplies(req[i].raw_text)) =>
            /\ req[i].rag_json = None
            /\ req[i].rag_explanation = req[i].raw_text

\* C6, amended: when no strategy applies, explanation is the raw text, and
\* findings is null unless the whole text, fence markers removed and trimmed,
\* is one JSON object; then findings is that object.
C6_WholeTextFallback ==
    \A i \in Inv :
        (req[i].pc = "assemble" /\ NoStrategyApplies(req[i].raw_text)) =>
            /\ req[i].rag_explanation = req[i].raw_text
            /\ req[i].rag_json = JsonLoads(Strip(Normalize(req[i].raw_text)))

\* Split has returned findings for a text without markers, json fence or key.
C6_Witness ==
    \E i \in Inv :
        /\ req[i].pc = "assemble"
        /\ NoStrategyApplies(req[i].raw_text)
        /\ req[i].rag_json # None
        /\ req[i].rag_explanation = req[i].raw_text

----------------------------------------------------------------------------
(* Report assembly alone *)

SectionKeys ==
    <<"probable_cause", "evidence_mapping", "next_steps",
      "proposed_remediation_via_aap", "key_kb_evidence", "reference_document">>

Heading(k) ==
    CASE k = "probable_cause"               -> "<h4>1) Probable cause</h4>"
      [] k = "evidence_mapping"             -> "<h4>2) Evidence mapping</h4>"
      [] k = "next_steps"                   -> "<h4>3) Next steps</h4>"
      [] k = "proposed_remediation_via_aap" -> "<h4>4) Proposed remediation via AAP</h4>"
      [] k = "key_kb_evidence"              -> "<h4>5) Key KB evidence</h4>"
      [] OTHER                              -> "<h4>6) Reference document</h4>"

\* A key the findings do not hold.
Absent == [t |-> "absent"]

\* What the model may put under each key of the findings.
FieldValues(k) ==
    CASE k = "probable_cause" ->
             {Absent, Str(<<>>), Str(<<"w", "<">>), Num(5)}
      [] k = "evidence_mapping" ->
             {Absent, List(<<>>), List(<<Str(<<"w">>), Num(5)>>), Str(<<"w">>)}
      [] k = "next_steps" ->
             {Absent, List(<<Dict([command |-> Str(<<" ", "w", " ">>)])>>),
              List(<<None, Dict([action |-> Str(<<"w">>)])>>), List(<<Str(<<"w">>)>>)}
      [] k = "proposed_remediation_via_aap" ->
             {Absent, Dict(EmptyMap), Dict([job_template |-> Str(<<"w">>)])}
      [] k = "key_kb_evidence" ->
             {Absent, List(<<Str(<<"cf", " ", "w">>)>>)}
      [] OTHER ->
             {Absent, Str(<<" ">>), Str(<<" ", "w">>)}

SectionIndex == 1..Len(SectionKeys)

KeyPos(k) == CHOOSE n \in SectionIndex : SectionKeys[n] = k

FindingsOf(vals) ==
    Dict([k \in {SectionKeys[n] : n \in {m \in SectionIndex : vals[m] # Absent}}
            |-> vals[KeyPos(k)]])

Findings ==
    {FindingsOf(vals) :
        vals \in {f \in [SectionIndex -> UNION {FieldValues(SectionKeys[n]) : n \in SectionIndex}] :
                     \A n \in SectionIndex : f[n] \in FieldValues(SectionKeys[n])}}

\* Split has returned; the findings are a mapping or null.
InitAssemble ==
    \E j \in Findings \cup {None}, e \in {<<>>, <<"-", " ", "w">>} :
        SoloInit([ReqInit EXCEPT !.pc = "assemble", !.payload = Str(<<"w">>),
                                 !.incident_question = <<"w">>,
                                 !.mcp_findings = <<"w">>, !.session_id = 1,
                                 !.raw_text = e, !.rag_explanation = e,
                                 !.rag_json = j],
                 CallsToCorrelation, TRUE, <<1>>)

NextAssemble == AssembleStep(1)

SpecAssemble == InitAssemble /\ [][NextAssemble]_vars

Contains(s, c) == \E n \in 1..Len(s) : s[n] = c

\* C7: for a non-empty findings mapping, the work notes hold the heading of a
\* section if and only if its key is present with a non-empty value.
C7_SectionIffFieldNonEmpty ==
    \A i \in Inv :
        (req[i].pc = "done" /\ req[i].rag_json.t = "dict" /\ Truthy(req[i].rag_json)) =>
            \A n \in SectionIndex :
                Contains(req[i].worknotes, Heading(SectionKeys[n]))
                    <=> /\ SectionKeys[n] \in DOMAIN req[i].rag_json.d
                        /\ Truthy(req[i].rag_json.d[SectionKeys[n]])

----------------------------------------------------------------------------
(* The renderer alone, one line of the text per step *)

\* Lines of a text enumerated in full.
MaxLines == 3

\* Blank, plain, fence, bullet and near-bullet lines, with inline code and
\* with tags typed literally.
RenderLines ==
    {<<>>, <<" ">>, <<"w">>, <<"F">>, <<"F", "j">>, <<" ", "F">>,
     <<"-", " ", "w">>, <<"*", " ", "bt", "w", "bt">>, <<" ", "-", " ", "<ul>">>,
     <<"-", "w">>, <<"<ul>">>, <<"</code></pre>", "<">>}

\* A bullet, a blank line, and a fenced block of one line.
WorkedExample ==
    JoinLines(<<<<"*", " ", "w">>, <<>>, <<"F">>, <<"w">>, <<"F">>>>)

RenderTexts ==
    {JoinLines(ls) : ls \in SeqsUpTo(RenderLines, MaxLines)} \cup {WorkedExample}

InitRender ==
    /\ env = [mcp_url |-> TRUE, mcp_prompt |-> TRUE, rag_prompt |-> TRUE]
    /\ rag_agent_cache = FALSE
    /\ req = [i \in Inv |-> ReqInit]
    /\ calls = [i \in Inv |-> <<>>]
    /\ sessions = <<>>
    /\ turns = {}
    /\ \E t \in RenderTexts :
          rd = [pc |-> "start", text |-> t, lines |-> <<>>, idx |-> 1,
                in_list |-> FALSE, in_code |-> FALSE, html_parts |-> <<>>,
                out |-> <<>>]

\* Lines 65-70: the empty text returns at once; else the lines are split.
RenderBegin ==
    /\ rd.pc = "start"
    /\ rd' = IF rd.text = <<>>
             THEN [rd EXCEPT !.pc = "done"]
             ELSE [rd EXCEPT !.pc = "loop", !.lines = SplitLines(rd.text)]
    /\ UNCHANGED <<env, rag_agent_cache, req, calls, sessions, turns>>

\* Lines 71-102: one iteration of the loop.
RenderStepLine ==
    /\ rd.pc = "loop"
    /\ rd.idx <= Len(rd.lines)
    /\ LET st == RenderLine([in_list |-> rd.in_list, in_code |-> rd.in_code,
                             html_parts |-> rd.html_parts], rd.lines[rd.idx])
       IN  rd' = [rd EXCEPT !.idx = @ + 1, !.in_list = st.in_list,
                            !.in_code = st.in_code, !.html_parts = st.html_parts]
    /\ UNCHANGED <<env, rag_agent_cache, req, calls, sessions, turns>>

\* Lines 103-107: close what is open and join the parts.
RenderFinish ==
    /\ rd.pc = "loop"
    /\ rd.idx > Len(rd.lines)
    /\ rd' = [rd EXCEPT !.pc = "done",
                        !.out = JoinLines(RenderClose([in_list |-> rd.in_list,
                                                       in_code |-> rd.in_code,
                                                       html_parts |-> rd.html_parts]))]
    /\ UNCHANGED <<env, rag_agent_cache, req, calls, sessions, turns>>

NextRender == RenderBegin \/ RenderStepLine \/ RenderFinish

SpecRender == InitRender /\ [][NextRender]_vars

\* Occurrences of c among the first n atoms of s.
RECURSIVE CountIn(_, _, _)
CountIn(s, c, n) ==
    IF n = 0 THEN 0 ELSE (IF s[n] = c THEN 1 ELSE 0) + CountIn(s, c, n - 1)

\* As many closes as opens, and never more closes than opens so far.
Balanced(s, open, close) ==
    /\ CountIn(s, close, Len(s)) = CountIn(s, open, Len(s))
    /\ \A n \in 1..Len(s) : CountIn(s, close, n) <= CountIn(s, open, n)

\* C9: the rendered text holds as many list closes as list opens and as many
\* code-block closes as code-block opens, each close after its open, whatever
\* the lines of the text and whether or not a fence is closed.
C9_BalancedBlockTags ==
    rd.pc = "done" =>
        /\ Balanced(rd.out, "<ul>", "</ul>")
        /\ Balanced(rd.out, "<pre><code>", "</code></pre>")

\* A text with a list and then a fence that is never closed has been rendered.
C9_Witness ==
    /\ rd.pc = "done"
    /\ rd.in_code
    /\ Contains(rd.out, "<ul>")
    /\ Contains(rd.out, "</code></pre>")

\* The stepwise run returns what the function returns.
RenderStepsAgree ==
    rd.pc = "done" => rd.out = render_simple_markdown_to_html(rd.text)

----------------------------------------------------------------------------
(* Report assembly on texts and findings that carry markup characters *)

\* Paragraph, bullet, inline code span, fence and code lines holding the
\* characters < > & and a line-break tag typed in the text.
EscapeLines ==
    {<<"w", "<">>, <<"-", " ", "&", "w">>, <<"bt", ">", "bt">>,
     <<"*", " ", "bt", "<", "&", "bt">>, <<"F">>, <<"B", "<">>, <<>>, <<"bt", "&">>}

EscapeTexts == {JoinLines(ls) : ls \in SeqsUpTo(EscapeLines, MaxLines)}

\* One value with markup characters under each key, or the key absent.
RawFieldValues(k) ==
    CASE k = "probable_cause" -> {Absent, Str(<<"<", "w", "&">>)}
      [] k = "evidence_mapping" -> {Absent, List(<<Str(<<"&">>), Str(<<"B">>)>>)}
      [] k = "next_steps" ->
             {Absent, List(<<Dict([command |-> Str(<<"w", ">">>)]),
                             Dict([command |-> Str(<<"<">>)])>>)}
      [] k = "proposed_remediation_via_aap" ->
             {Absent, Dict([job_template |-> Str(<<"<", "w", ">">>)])}
      [] k = "key_kb_evidence" -> {Absent, List(<<Str(<<"cf", "&">>)>>)}
      [] OTHER -> {Absent, Str(<<" ", "<", "B">>)}

EscapeFindings ==
    {FindingsOf(vals) :
        vals \in {f \in [SectionIndex -> UNION {RawFieldValues(SectionKeys[n]) : n \in SectionIndex}] :
                     \A n \in SectionIndex : f[n] \in RawFieldValues(SectionKeys[n])}}

\* The diagnostics text, the explanation and the findings handed to assembly.
EscapeInputs ==
    {[m |-> t, e |-> <<>>, j |-> None] : t \in EscapeTexts}
        \cup {[m |-> <<"w">>, e |-> t, j |-> None] : t \in EscapeTexts}
        \cup {[m |-> <<"bt", "<", "bt">>, e |-> <<"&">>, j |-> f] : f \in EscapeFindings}

InitEscape ==
    \E x \in EscapeInputs :
        SoloInit([ReqInit EXCEPT !.pc = "assemble", !.payload = Str(<<"w">>),
                                 !.incident_question = <<"w">>,
                                 !.mcp_findings = x.m, !.session_id = 1,
                                 !.raw_text = x.e, !.rag_explanation = x.e,
                                 !.rag_json = x.j],
                 CallsToCorrelation, TRUE, <<1>>)

NextEscape == AssembleStep(1)

SpecEscape == InitEscape /\ [][NextEscape]_vars

\* The characters < > & and the typed line-break tag, as the model wrote them.
RawAtoms == {"<", ">", "&", "B"}

\* C11: no character < > & of the diagnostics text, the explanation or the
\* findings values stands unescaped in the work notes, whichever path emitted
\* it: paragraph, bullet, inline code span, fenced block or structured section.
C11_NoRawMarkupInWorknotes ==
    \A i \in Inv :
        req[i].pc = "done" =>
            \A n \in 1..Len(req[i].worknotes) : req[i].worknotes[n] \notin RawAtoms

\* Work notes built from findings whose sections all carry markup characters,
\* after a diagnostics text with a code span holding one.
C11_Witness ==
    \E i \in Inv :
        /\ req[i].pc = "done"
        /\ req[i].rag_json.t = "dict"
        /\ \A n \in SectionIndex : SectionKeys[n] \in DOMAIN req[i].rag_json.d
        /\ Contains(req[i].mcp_findings, "<")
        /\ Contains(req[i].worknotes, "<code>")
        /\ Contains(req[i].worknotes, "&lt;")
        /\ Contains(req[i].worknotes, "&amp;")

----------------------------------------------------------------------------
(* Further properties of the structured-result extraction *)

\* C12: whenever the text holds a start marker, explanation is the text before
\* the first start marker, whether or not an end marker follows and whether or
\* not an object lies between them.
C12_StartMarkerTruncates ==
    \A i \in Inv :
        (req[i].pc = "assemble" /\ Contains(req[i].raw_text, "S")) =>
            req[i].rag_explanation
                = Strip(SubSeq(req[i].raw_text, 1, RegionStart(req[i].raw_text) - 1))

\* The first fence tagged json and the first fence after it; 0 when missing.
JsonFenceOpen(raw) ==
    IF \E p \in 1..Len(raw) - 1 : raw[p] = "F" /\ raw[p + 1] = "j"
    THEN CHOOSE p \in 1..Len(raw) - 1 :
             /\ raw[p] = "F" /\ raw[p + 1] = "j"
             /\ \A r \in 1..p - 1 : ~(raw[r] = "F" /\ raw[r + 1] = "j")
    ELSE 0

JsonFenceClose(raw) ==
    IF JsonFenceOpen(raw) = 0 THEN 0 ELSE IndexFrom(raw, "F", JsonFenceOpen(raw) + 2)

\* What the fenced block tagged json holds, read as JSON.
FencedObject(raw) ==
    IF JsonFenceClose(raw) = 0 THEN None
    ELSE JsonLoads(SubSeq(raw, JsonFenceOpen(raw) + 2, JsonFenceClose(raw) - 1))

\* C13: for a text without marker region and without anchor key that holds a
\* fenced block tagged json with a well-formed JSON object in it, with any
\* prose before or after the fence, findings is that object.
C13_FencedJsonFound ==
    \A i \in Inv :
        (/\ req[i].pc = "assemble"
         /\ ~HasRegion(req[i].raw_text)
         /\ IndexFrom(req[i].raw_text, "K", 1) = 0
         /\ FencedObject(req[i].raw_text) # None) =>
            req[i].rag_json = FencedObject(req[i].raw_text)

\* The nearest opening brace at or before j that no closing brace between it
\* and j matches; 0 when there is none.
RECURSIVE UnmatchedOpen(_, _, _)
UnmatchedOpen(t, j, depth) ==
    IF j = 0 THEN 0
    ELSE IF t[j] = "}" THEN UnmatchedOpen(t, j - 1, depth + 1)
    ELSE IF t[j] = "{"
         THEN IF depth = 0 THEN j ELSE UnmatchedOpen(t, j - 1, depth - 1)
    ELSE UnmatchedOpen(t, j - 1, depth)

\* The object that encloses the anchor key: from its unmatched opening brace
\* to the brace that closes it.
EnclosingSpan(t) ==
    LET s0 == UnmatchedOpen(t, IndexFrom(t, "K", 1) - 1, 0)
    IN  IF IndexFrom(t, "K", 1) = 0 \/ s0 = 0 THEN <<>>
        ELSE SubSeq(t, s0, BalanceEnd(t, s0, 0) - 1)

\* C14: when the anchor-key strategy is the one that applies (no marker, no
\* fence) and the object enclosing the anchor key is well-formed, findings is
\* that enclosing object, also when a complete sibling object lies between
\* its opening brace and the key.
C14_AnchorSpanEnclosesKey ==
    \A i \in Inv :
        (/\ req[i].pc = "assemble"
         /\ ~Contains(req[i].raw_text, "S")
         /\ ~Contains(req[i].raw_text, "F")
         /\ JsonLoads(EnclosingSpan(Normalize(req[i].raw_text))) # None) =>
            req[i].rag_json = JsonLoads(EnclosingSpan(Normalize(req[i].raw_text)))

----------------------------------------------------------------------------
(* Further properties of the renderer *)

\* The parts one step of the loop appended.
NewParts == SubSeq(rd'.html_parts, Len(rd.html_parts) + 1, Len(rd'.html_parts))

BlockTags == {"<ul>", "</ul>", "<li>", "</li>", "<p>", "</p>", "<br/>"}

\* What one line may do to the flags and the output.
LineStepOk ==
    (rd.pc = "loop" /\ rd'.pc = "loop" /\ rd'.idx = rd.idx + 1) =>
        /\ (~rd.in_code /\ rd'.in_code) =>
               /\ NewParts = (IF rd.in_list THEN <<<<"</ul>">>>> ELSE <<>>)
                                 \o <<<<"<pre><code>">>>>
               /\ ~rd'.in_list
        /\ (rd.in_code /\ rd'.in_code) =>
               /\ Len(NewParts) = 1
               /\ \A n \in 1..Len(NewParts[1]) : NewParts[1][n] \notin BlockTags
        /\ (rd.in_code /\ ~rd'.in_code) => NewParts = <<<<"</code></pre>">>>>
        /\ (rd.in_code /\ Strip(rd.lines[rd.idx]) = <<>>) => rd'.in_code

\* C15: in_list and in_code are never both true; a fence that opens a code
\* block while a list is open emits the list close and then the code-block
\* open; while in_code holds, a line emits no list tag, paragraph tag or line
\* break, and a blank line leaves the block open; and the text of a bullet, a
\* blank line and a fenced block of one line renders as <ul>, <li>..</li>,
\* </ul>, <br/>, <pre><code>, the line, </code></pre>.
C15_RendererStateMachine ==
    /\ [](rd.pc # "off" => ~(rd.in_list /\ rd.in_code))
    /\ [][LineStepOk]_vars
    /\ [](rd.pc = "done" /\ rd.text = WorkedExample =>
             rd.out = JoinLines(<<<<"<ul>">>, <<"<li>", "w", "</li>">>, <<"</ul>">>,
                                  <<"<br/>">>, <<"<pre><code>">>, <<"w">>,
                                  <<"</code></pre>">>>>))

\* The worked example has been rendered, its list closed before its code block
\* opened.
C15_Witness ==
    /\ rd.pc = "done"
    /\ rd.text = WorkedExample
    /\ Contains(rd.out, "</ul>")
    /\ Contains(rd.out, "<pre><code>")

\* A blank line has been passed inside an open code block.
BlankLineInCode ==
    /\ rd.pc = "loop" /\ rd.in_code /\ rd.idx > 1
    /\ Strip(rd.lines[rd.idx - 1]) = <<>>

----------------------------------------------------------------------------
(* The text of the turn result alone *)

\* A content entry of the export, typed as the function expects it.
Entry(ty, txt) == Dict([type |-> Str(<<ty>>), text |-> Str(txt)])

\* Output items of the export: message items with one or two texts, a tool
\* item with a text, a message without content, content null, and an item that
\* is no mapping.
TurnItems ==
    {Dict([type |-> Str(<<"message">>), content |-> List(<<Entry("output_text", <<"t1">>)>>)]),
     Dict([type |-> Str(<<"message">>),
           content |-> List(<<Entry("text", <<>>), Entry("output_text", <<"t2">>),
                              Entry("text", <<"t3">>)>>)]),
     Dict([type |-> Str(<<"tool">>), content |-> List(<<Entry("text", <<"t4">>)>>)]),
     Dict([type |-> Str(<<"message">>)]),
     Dict([type |-> Str(<<"message">>), content |-> None]),
     Str(<<"w">>)}

\* The dict exports: with an output list, with a top-level text, with both,
\* with neither.
TurnExports ==
    {Dict([output |-> List(q)]) : q \in SeqsUpTo(TurnItems, MaxItems)}
        \cup {Dict([output |-> List(q), text |-> Str(<<"t9">>)]) :
                  q \in SeqsUpTo(TurnItems, MaxItems)}
        \cup {Dict([text |-> Str(<<" ">>)]), Dict([output |-> None]), Dict(EmptyMap)}

\* The turn results: the export as to_dict() of an object, with or without an
\* output_text beside it, or as the mapping itself; and objects without export.
TurnResults ==
    {Obj([to_dict |-> d]) : d \in TurnExports}
        \cup {Obj([to_dict |-> d, output_text |-> t]) :
                  d \in TurnExports, t \in {Str(<<"t0">>), Str(<<" ">>), None}}
        \cup TurnExports
        \cup {Obj([output_text |-> Str(<<"t0">>)]), Obj([to_dict |-> None]),
              Obj([output |-> List(<<Obj([type |-> Str(<<"message">>),
                                          content |-> List(<<Obj([text |-> Str(<<"t5">>)])>>)])>>)])}

InitTurn ==
    \E r \in TurnResults :
        SoloInit([ReqInit EXCEPT !.pc = "split", !.payload = Str(<<"w">>),
                                 !.incident_question = <<"w">>,
                                 !.mcp_findings = <<"w">>, !.session_id = 1,
                                 !.rag_result = r],
                 CallsToCorrelation, TRUE, <<1>>)

NextTurn == SplitStep(1)

SpecTurn == InitTurn /\ [][NextTurn]_vars

\* The first non-empty text among the content entries from i on; None if none.
RECURSIVE FirstText(_, _)
FirstText(cl, i) ==
    IF i > Len(cl) THEN None
    ELSE IF cl[i].t = "dict" /\ IsTextual(DictGet(cl[i], "text")) THEN cl[i].d["text"]
    ELSE FirstText(cl, i + 1)

\* The output-scan rule: items from the last to the first, the first
\* non-empty text of the most recent message item that holds one.
RECURSIVE ScanOutput(_, _)
ScanOutput(items, i) ==
    IF i = 0 THEN None
    ELSE LET item == items[i]
             content == IF item.t = "dict" THEN DictGet(item, "content") ELSE None
             found == IF item.t = "dict" /\ DictGet(item, "type") = Str(<<"message">>)
                         /\ content.t = "list"
                      THEN FirstText(content.items, 1) ELSE None
         IN  IF found # None THEN found ELSE ScanOutput(items, i - 1)

\* The text the stated precedence selects.
PrecedenceText(turn) ==
    LET t == GetAttr(turn, "output_text")
        d == TurnDict(turn)
        output == IF d.t = "dict" THEN DictGet(d, "output") ELSE None
        scanned == IF output.t = "list" THEN ScanOutput(output.items, Len(output.items))
                   ELSE None
        txt2 == IF d.t = "dict" THEN DictGet(d, "text") ELSE None
        generic == extract_output_text(turn)
    IN  IF IsTextual(t) THEN t
        ELSE IF scanned # None THEN scanned
        ELSE IF IsTextual(txt2) THEN txt2
        ELSE IF generic.k = "ret" THEN generic.v ELSE None

\* C16: the text taken from the turn result is output_text when it is not
\* empty; else, from the dict export, the first non-empty text of the most
\* recent message item (one text, not several joined); else the top-level
\* text; else what the generic extractor returns.
C16_TurnTextPrecedence ==
    \A i \in Inv :
        (req[i].pc = "assemble" /\ PrecedenceText(req[i].rag_result).t = "str") =>
            req[i].raw_text = Strip(PrecedenceText(req[i].rag_result).s)

----------------------------------------------------------------------------
(* Memoized lookups *)

\* Every listing of the models the process has asked for, by invocation and
\* position in its history.
ModelListings ==
    UNION {{<<i, k>> : k \in CallsOf(i, "models.list")} : i \in Inv}

\* C17: the model is selected, i.e. the models are listed, at most once in the
\* life of the process, whatever the number of requests.
C17_ModelSelectedOnce == Cardinality(ModelListings) <= 1

=============================================================================
